---------------------------- MODULE Spec2Model ----------------------------
(***************************************************************************)
(* Model of fipy.ngsi.entity (src/fipy/ngsi/entity.py): the NGSI attribute *)
(* wrappers, the entity base class, the notification filter and the        *)
(* Quantum Leap series builder.                                            *)
(*                                                                         *)
(* Python values are tagged records so that values of different Python     *)
(* types can sit in one set; Python dicts are functions whose DOMAIN is    *)
(* the set of keys present; a call's outcome is a record whose `kind` is   *)
(* "ok" (a value was returned), "none" (None was returned) or "error" (an  *)
(* exception left the call).                                                *)
(***************************************************************************)
EXTENDS Integers, Sequences, FiniteSets, TLC

VARIABLES call, result, heap

vars == <<call, result, heap>>

(***************************************************************************)
(* Bounds.                                                                 *)
(***************************************************************************)
\* largest number used as an attribute value
MaxNum == 11
\* objects on the heap of the identifier specification
MaxHeap == 2
\* records in a notification batch
MaxBatch == 2
\* elements of a payload's `attributes`
MaxAttrs == 3
\* entries of a payload's `index`
MaxIndex == 2

(***************************************************************************)
(* Python values.                                                          *)
(***************************************************************************)
NoneV == [t |-> "none", n |-> 0, s |-> ""]
IntV(n) == [t |-> "int", n |-> n, s |-> ""]
\* the float n.0
FloatV(n) == [t |-> "float", n |-> n, s |-> ""]
StrV(s) == [t |-> "str", n |-> 0, s |-> s]
\* the empty list, a value neither float() nor str validation accepts
ListV == [t |-> "list", n |-> 0, s |-> ""]

IsNumber(v) == v.t \in {"int", "float"}

\* Python's ==: an int equals the float of the same value, and a value of
\* one type never equals a value of another
PyEq(a, b) ==
    \/ IsNumber(a) /\ IsNumber(b) /\ a.n = b.n
    \/ a.t = b.t /\ ~IsNumber(a) /\ a.s = b.s

Digit == <<"0", "1", "2", "3", "4", "5", "6", "7", "8", "9">>

RECURSIVE IntToStr(_)
\* str(n) of a natural number
IntToStr(n) ==
    IF n < 10 THEN Digit[n + 1]
    ELSE IntToStr(n \div 10) \o Digit[(n % 10) + 1]

\* str(n.0)
FloatToStr(n) == IntToStr(n) \o ".0"

\* the numbers whose numeral float() reads from the string s
ParsedNumbers(s) == {n \in 0..MaxNum : s \in {IntToStr(n), FloatToStr(n)}}

Ok(v) == [kind |-> "ok", val |-> v]
None == [kind |-> "none"]
Error(e) == [kind |-> "error", err |-> e]
NotCalled == [kind |-> "not called"]

(***************************************************************************)
(* pydantic's field validation, as far as the declared field types of this *)
(* file need it: Any, float, str.                                          *)
(***************************************************************************)
float_validator(v) ==
    CASE v.t = "float" -> Ok(v)
      [] v.t = "int" -> Ok(FloatV(v.n))
      [] v.t = "str" /\ ParsedNumbers(v.s) # {} ->
            Ok(FloatV(CHOOSE n \in ParsedNumbers(v.s) : TRUE))
      [] OTHER -> Error("ValidationError")

str_validator(v) ==
    CASE v.t = "str" -> Ok(v)
      [] v.t = "int" -> Ok(StrV(IntToStr(v.n)))
      [] v.t = "float" -> Ok(StrV(FloatToStr(v.n)))
      [] OTHER -> Error("ValidationError")

(***************************************************************************)
(* Attr, FloatAttr, TextAttr.                                              *)
(***************************************************************************)
AttrKinds == {"Attr", "FloatAttr", "TextAttr"}

\* the class's `type` field: Optional[str] with no default in Attr, a
\* default in the two sub-classes
AttrTypeDefault(cls) ==
    CASE cls = "FloatAttr" -> StrV("Number")
      [] cls = "TextAttr" -> StrV("Text")
      [] OTHER -> NoneV

\* validation of the class's `value` field
AttrValueValidate(cls, v) ==
    CASE cls = "FloatAttr" -> float_validator(v)
      [] cls = "TextAttr" -> str_validator(v)
      [] OTHER -> Ok(v)

\* dict.get(key, default)
Get(d, key, default) == IF key \in DOMAIN d THEN d[key] ELSE default

\* whether a raw value is a dict (a function from keys) and not a scalar
IsDict(x) == "t" \notin DOMAIN x

\* cls(**kw): `value` is validated against the class's declared type (a
\* missing or None value is an error where the type is not Any), `type`
\* against Optional[str], taking the class's default when it is not given
AttrConstructKw(cls, kw) ==
    LET value == Get(kw, "value", NoneV)
        r == AttrValueValidate(cls, value)
        ty == IF "type" \in DOMAIN kw /\ kw["type"] # NoneV
              THEN str_validator(kw["type"])
              ELSE Ok(IF "type" \in DOMAIN kw THEN NoneV
                      ELSE AttrTypeDefault(cls))
    IN  IF value = NoneV /\ cls # "Attr" THEN Error("ValidationError")
        ELSE IF r.kind = "error" THEN r
        ELSE IF ty.kind = "error" THEN ty
        ELSE Ok([type |-> ty.val, value |-> r.val])

\* cls(value=value)
AttrConstruct(cls, value) == AttrConstructKw(cls, [value |-> value])

\* a plausible slip: the guard on None left out
AttrNew_NoNoneGuard(cls, value) == AttrConstruct(cls, value)

\* Attr.new
AttrNew(cls, value) ==
    IF value = NoneV THEN None ELSE AttrConstruct(cls, value)

AttrStrings == {IntToStr(n) : n \in 0..MaxNum} \cup {"", "abc", "2.0"}

AttrValues ==
    {NoneV, ListV}
    \cup {IntV(n) : n \in 0..MaxNum}
    \cup {FloatV(n) : n \in 0..MaxNum}
    \cup {StrV(s) : s \in AttrStrings}

NoHeap == <<>>

AttrCalls ==
    {[op |-> "new", cls |-> cls, value |-> value] :
        cls \in AttrKinds, value \in AttrValues}

InitAttr ==
    /\ call \in AttrCalls
    /\ result = NotCalled
    /\ heap = NoHeap

\* the call of cls.new(value) runs
CallAttrNew ==
    /\ call.op = "new"
    /\ result = NotCalled
    /\ result' = AttrNew(call.cls, call.value)
    /\ UNCHANGED <<call, heap>>

NextAttr == CallAttrNew

SpecAttr == InitAttr /\ [][NextAttr]_vars

NewReturned == call.op = "new" /\ result # NotCalled

\* the values a wrapper kind stores as they are: anything for Attr, a
\* number for FloatAttr, a string for TextAttr
AdmitsUnchanged(cls, v) ==
    \/ cls = "Attr"
    \/ cls = "FloatAttr" /\ IsNumber(v)
    \/ cls = "TextAttr" /\ v.t = "str"

FixedTag(cls) ==
    CASE cls = "FloatAttr" -> StrV("Number")
      [] cls = "TextAttr" -> StrV("Text")
      [] OTHER -> NoneV

\* C9 as stated: new(value) returns None exactly when value is None, and
\* for every other value a wrapper whose value equals the input and whose
\* type is the kind's fixed tag.
C9_EveryConcreteValueWrapped ==
    NewReturned =>
        /\ (result.kind = "none") <=> (call.value = NoneV)
        /\ call.value # NoneV =>
            /\ result.kind = "ok"
            /\ PyEq(result.val.value, call.value)
            /\ result.val.type = FixedTag(call.cls)

\* C9 amended: new(value) returns None exactly when value is None; for
\* every concrete value of the kind's own value type (any value for Attr, a
\* number for FloatAttr, a string for TextAttr) it returns a wrapper whose
\* value equals the input and whose type is the kind's fixed tag; a value
\* of another type is converted by validation or rejected with an error.
C9_NewWrapsAdmittedValues ==
    NewReturned =>
        /\ (result.kind = "none") <=> (call.value = NoneV)
        /\ (call.value # NoneV /\ AdmitsUnchanged(call.cls, call.value)) =>
            /\ result.kind = "ok"
            /\ PyEq(result.val.value, call.value)
            /\ result.val.type = FixedTag(call.cls)
        /\ (call.value # NoneV /\ result.kind = "ok") =>
            /\ result.val.type = FixedTag(call.cls)
            /\ AdmitsUnchanged(call.cls, result.val.value)

C9_Witness ==
    /\ NewReturned
    /\ call.cls = "FloatAttr"
    /\ call.value = IntV(3)
    /\ result.kind = "ok"
    /\ result.val = [type |-> StrV("Number"), value |-> FloatV(3)]

(***************************************************************************)
(* BaseEntity and two entity kinds declared the way the class is meant to  *)
(* be extended: a fixed `type` literal, and an attribute field that is     *)
(* optional in one kind and required in the other.                         *)
(*     class Sensor(BaseEntity): type = 'Sensor'                           *)
(*                               temperature: Optional[FloatAttr]          *)
(*     class Room(BaseEntity):   type = 'Room'                             *)
(*                               temperature: FloatAttr                    *)
(***************************************************************************)
EntityKinds == {"Sensor", "Room"}

\* the kind's default for `type`
EntityTypeDefault(cls) == StrV(cls)

\* the attribute fields the kind declares without a default
EntityRequired(cls) == IF cls = "Room" THEN {"temperature"} ELSE {}

\* validation of the `temperature` field: a dict is turned into a FloatAttr
TemperatureValidate(cls, kw) ==
    IF "temperature" \notin DOMAIN kw \/ kw["temperature"] = NoneV
    THEN IF "temperature" \in EntityRequired(cls)
         THEN Error("ValidationError")
         ELSE Ok(NoneV)
    ELSE IF IsDict(kw["temperature"])
         THEN AttrConstructKw("FloatAttr", kw["temperature"])
         ELSE Error("ValidationError")

\* cls(**kw) of an entity kind: `id` is required, `type` has the kind's
\* default, keys that name no field are ignored
EntityConstruct(cls, kw) ==
    LET id == IF "id" \in DOMAIN kw /\ kw["id"] # NoneV
              THEN str_validator(kw["id"])
              ELSE Error("ValidationError")
        ty == IF "type" \in DOMAIN kw
              THEN (IF kw["type"] = NoneV THEN Error("ValidationError")
                    ELSE str_validator(kw["type"]))
              ELSE Ok(EntityTypeDefault(cls))
        temp == TemperatureValidate(cls, kw)
    IN  IF id.kind = "error" THEN id
        ELSE IF ty.kind = "error" THEN ty
        ELSE IF temp.kind = "error" THEN temp
        ELSE Ok([cls |-> cls, id |-> id.val.s, type |-> ty.val.s,
                 temperature |-> temp.val])

ld_urn(unique_suffix) == "urn:ngsi-ld:" \o unique_suffix

\* a plausible slip: the type left out of the identifier
set_id_NoType(entity, unique_suffix) ==
    [entity EXCEPT !.id = ld_urn(unique_suffix)]

\* BaseEntity.set_id_with_type_prefix: the entity after the call
set_id_with_type_prefix(entity, unique_suffix) ==
    LET own_id == entity.type \o ":" \o unique_suffix
    IN  [entity EXCEPT !.id = ld_urn(own_id)]

GoodTemperature == [type |-> StrV("Number"), value |-> FloatV(21)]

EntityIds == {"", "a1"}
Suffixes == {"xyz", "a1"}

\* the keyword arguments of a direct construction
EntityKwargs ==
    {[id |-> StrV(i)] : i \in EntityIds}
    \cup {[id |-> StrV(i), temperature |-> GoodTemperature] : i \in EntityIds}

InitId ==
    /\ call = [op |-> "none"]
    /\ result = NotCalled
    /\ heap = NoHeap

\* cls(**kw) puts a new entity on the heap; a failed construction puts none
NewEntity ==
    \E cls \in EntityKinds, kw \in EntityKwargs :
        LET e == EntityConstruct(cls, kw)
        IN  /\ Len(heap) < MaxHeap
            /\ call' = [op |-> "construct", cls |-> cls, kw |-> kw]
            /\ heap' = IF e.kind = "ok" THEN Append(heap, e.val) ELSE heap
            /\ result' = IF e.kind = "ok" THEN Ok(Len(heap) + 1) ELSE e

\* self.set_id_with_type_prefix(unique_suffix) on the entity at `self`;
\* the call returns the reference it was called on
CallSetId ==
    \E self \in DOMAIN heap, unique_suffix \in Suffixes :
        /\ call' = [op |-> "set_id_with_type_prefix", self |-> self,
                    unique_suffix |-> unique_suffix]
        /\ heap' = [heap EXCEPT
                      ![self] = set_id_with_type_prefix(heap[self],
                                                        unique_suffix)]
        /\ result' = Ok(self)

NextId == NewEntity \/ CallSetId

SpecId == InitId /\ [][NextId]_vars

\* C8: a step of set_id_with_type_prefix(suffix) on an entity of type T
\* sets its id to "urn:ngsi-ld:" + T + ":" + suffix whatever the id was,
\* returns the entity it was called on, leaves type, the other fields and
\* every other entity unchanged, and a second call with the same suffix
\* changes nothing.
C8_SetIdWithTypePrefix ==
    [][call'.op = "set_id_with_type_prefix" =>
        LET self == call'.self
            suffix == call'.unique_suffix
        IN  /\ heap'[self].id =
                   "urn:ngsi-ld:" \o heap[self].type \o ":" \o suffix
            /\ result' = Ok(self)
            /\ heap'[self].type = heap[self].type
            /\ heap'[self].temperature = heap[self].temperature
            /\ heap'[self].cls = heap[self].cls
            /\ DOMAIN heap' = DOMAIN heap
            /\ \A r \in DOMAIN heap : r # self => heap'[r] = heap[r]
            /\ (call = call' => heap' = heap)
    ]_vars

C8_Witness ==
    /\ call.op = "set_id_with_type_prefix"
    /\ call.unique_suffix = "xyz"
    /\ result = Ok(call.self)
    /\ heap[call.self].type = "Sensor"
    /\ heap[call.self].id = "urn:ngsi-ld:Sensor:xyz"
    /\ heap[call.self].temperature = GoodTemperature

(***************************************************************************)
(* Decoding raw records: BaseEntity.from_raw and                           *)
(* EntityUpdateNotification.filter_entities.                               *)
(***************************************************************************)
\* a plausible slip: a failed construction taken for a record to skip
from_raw_Swallow(cls, raw_entity) ==
    LET own == EntityConstruct(cls, [id |-> StrV("")])
        etype == Get(raw_entity, "type", StrV(""))
        e == EntityConstruct(cls, raw_entity)
    IN  IF own.kind = "error" THEN None
        ELSE IF ~PyEq(StrV(own.val.type), etype) THEN None
        ELSE IF e.kind = "error" THEN None ELSE e

\* BaseEntity.from_raw: the kind's own type is read off an instance built
\* from an empty id alone, and the record is decoded when its type is that
from_raw(cls, raw_entity) ==
    LET own == EntityConstruct(cls, [id |-> StrV("")])
        etype == Get(raw_entity, "type", StrV(""))
    IN  IF own.kind = "error" THEN own
        ELSE IF ~PyEq(StrV(own.val.type), etype) THEN None
        ELSE EntityConstruct(cls, raw_entity)

IsEntity(c) == c.kind = "ok"
IsError(c) == c.kind = "error"

\* a plausible slip: the candidates collected back to front
filter_entities_Reversed(data, entity_class) ==
    LET n == Len(data)
        candidates == [i \in 1..n |-> from_raw(entity_class, data[n + 1 - i])]
        failed == SelectSeq(candidates, IsError)
        found == SelectSeq(candidates, IsEntity)
    IN  IF failed # <<>> THEN failed[1]
        ELSE Ok([i \in 1..Len(found) |-> found[i].val])

\* EntityUpdateNotification.filter_entities: the first error from_raw
\* raises leaves the call; otherwise the candidates that are not None
filter_entities(data, entity_class) ==
    LET candidates == [i \in 1..Len(data) |-> from_raw(entity_class, data[i])]
        failed == SelectSeq(candidates, IsError)
        found == SelectSeq(candidates, IsEntity)
    IN  IF failed # <<>> THEN failed[1]
        ELSE Ok([i \in 1..Len(found) |-> found[i].val])

Absent == [t |-> "absent", n |-> 0, s |-> ""]

\* the dict with the keys whose value is not Absent
RawRecord(id, type, temperature) ==
    LET given == [k \in {"id", "type", "temperature"} |->
                    CASE k = "id" -> id
                      [] k = "type" -> type
                      [] OTHER -> temperature]
    IN  [k \in {k \in DOMAIN given : given[k] # Absent} |-> given[k]]

BadTemperature == [value |-> StrV("abc")]

RawIds == {Absent, StrV("a"), IntV(7), ListV}
RawTypes == {Absent, StrV("Sensor"), StrV("Room")}
RawTemperatures == {Absent, GoodTemperature, BadTemperature}

RawRecords ==
    {RawRecord(i, t, m) : i \in RawIds, t \in RawTypes, m \in RawTemperatures}

RECURSIVE SeqsUpTo(_, _)
\* the sequences over S of length at most n
SeqsUpTo(S, n) ==
    IF n = 0 THEN {<<>>}
    ELSE LET shorter == SeqsUpTo(S, n - 1)
         IN  shorter \cup {Append(q, x) : q \in shorter, x \in S}

InitDecode ==
    /\ \E cls \in EntityKinds :
          \/ \E r \in RawRecords :
                call = [op |-> "from_raw", cls |-> cls, raw_entity |-> r]
          \/ \E d \in SeqsUpTo(RawRecords, MaxBatch) :
                call = [op |-> "filter_entities", entity_class |-> cls,
                        data |-> d]
    /\ result = NotCalled
    /\ heap = NoHeap

CallFromRaw ==
    /\ call.op = "from_raw"
    /\ result = NotCalled
    /\ result' = from_raw(call.cls, call.raw_entity)
    /\ UNCHANGED <<call, heap>>

CallFilterEntities ==
    /\ call.op = "filter_entities"
    /\ result = NotCalled
    /\ result' = filter_entities(call.data, call.entity_class)
    /\ UNCHANGED <<call, heap>>

NextDecode == CallFromRaw \/ CallFilterEntities

SpecDecode == InitDecode /\ [][NextDecode]_vars

\* the record's `type` is the kind's type literal
TypeMatches(cls, raw) == "type" \in DOMAIN raw /\ raw["type"] = StrV(cls)

\* a field the kind needs is missing from the record, or holds a value that
\* is not of the field's type and cannot be converted to it
Malformed(cls, raw) ==
    \/ "id" \notin DOMAIN raw
    \/ raw["id"].t \notin {"str", "int", "float"}
    \/ "temperature" \in DOMAIN raw /\ raw["temperature"] = BadTemperature
    \/ "temperature" \notin DOMAIN raw /\ cls = "Room"

FilterReturned == call.op = "filter_entities" /\ result # NotCalled
FromRawReturned == call.op = "from_raw" /\ result # NotCalled

MatchingAt(cls, data) == {i \in DOMAIN data : TypeMatches(cls, data[i])}

SubSeqAt(seq, S) ==
    LET F[i \in 0..Len(seq)] ==
            IF i = 0 THEN <<>>
            ELSE IF i \in S THEN Append(F[i - 1], seq[i]) ELSE F[i - 1]
    IN  F[Len(seq)]

\* C6: the list filter_entities returns is an order-preserving subsequence
\* of the batch: no longer than `data`, and its items are, in the order of
\* `data`, the decodings of records whose type is the target kind's.
C6_FilterIsOrderedSubsequence ==
    (FilterReturned /\ result.kind = "ok") =>
        /\ Len(result.val) <= Len(call.data)
        /\ \E S \in SUBSET MatchingAt(call.entity_class, call.data) :
              LET picked == SubSeqAt(call.data, S)
              IN  /\ Len(picked) = Len(result.val)
                  /\ \A i \in DOMAIN picked :
                        LET e == EntityConstruct(call.entity_class, picked[i])
                        IN  /\ e.kind = "ok"
                            /\ result.val[i] = e.val
                            /\ result.val[i].type = call.entity_class

C6_Witness ==
    /\ FilterReturned
    /\ call.entity_class = "Sensor"
    /\ call.data = <<RawRecord(IntV(7), StrV("Sensor"), Absent),
                     RawRecord(StrV("a"), StrV("Sensor"), GoodTemperature)>>
    /\ result.kind = "ok"
    /\ Len(result.val) = 2
    /\ result.val[1].id = "7"
    /\ result.val[2].id = "a"

\* C7: for every kind and every record whose type is absent or is not the
\* kind's type literal, from_raw returns None and raises no error, whatever
\* fields the kind requires.
C7_FromRawTotalOnMismatch ==
    (FromRawReturned /\ ~TypeMatches(call.cls, call.raw_entity)) =>
        result = None

(***************************************************************************)
(* EntitySeries.from_quantumleap_format.  A timestamp string is the        *)
(* sequence of its characters; a datetime is the record of its fields.     *)
(***************************************************************************)
\* the value of a decimal digit, -1 for any other character
DigitValue(c) ==
    CASE c = "0" -> 0 [] c = "1" -> 1 [] c = "2" -> 2 [] c = "3" -> 3
      [] c = "4" -> 4 [] c = "5" -> 5 [] c = "6" -> 6 [] c = "7" -> 7
      [] c = "8" -> 8 [] c = "9" -> 9 [] OTHER -> -1

\* the number written by the digits of s at positions from..to, -1 when one
\* of them is no digit
Number(s, from, to) ==
    LET F[i \in (from - 1)..to] ==
            IF i = from - 1 THEN 0
            ELSE IF F[i - 1] < 0 \/ DigitValue(s[i]) < 0 THEN -1
            ELSE 10 * F[i - 1] + DigitValue(s[i])
    IN  F[to]

IsLeap(y) == y % 4 = 0 /\ (y % 100 # 0 \/ y % 400 = 0)

DaysInMonth(y, m) ==
    CASE m = 2 -> IF IsLeap(y) THEN 29 ELSE 28
      [] m \in {4, 6, 9, 11} -> 30
      [] OTHER -> 31

\* datetime.fromisoformat on YYYY-MM-DD and YYYY-MM-DD*HH:MM:SS, where *
\* is any one character; fractions of a second and UTC offsets are not
\* among the strings drawn here
fromisoformat(s) ==
    LET year == Number(s, 1, 4)
        month == Number(s, 6, 7)
        day == Number(s, 9, 10)
        timed == Len(s) = 19
        hour == IF timed THEN Number(s, 12, 13) ELSE 0
        minute == IF timed THEN Number(s, 15, 16) ELSE 0
        second == IF timed THEN Number(s, 18, 19) ELSE 0
    IN  IF /\ Len(s) \in {10, 19}
           /\ s[5] = "-" /\ s[8] = "-"
           /\ year >= 1 /\ month \in 1..12
           /\ day \in 1..DaysInMonth(year, month)
           /\ timed => /\ s[14] = ":" /\ s[17] = ":"
                       /\ hour \in 0..23 /\ minute \in 0..59
                       /\ second \in 0..59
        THEN Ok([year |-> year, month |-> month, day |-> day,
                 hour |-> hour, minute |-> minute, second |-> second])
        ELSE Error("ValueError")

\* fipy.dict.merge_dicts: the dicts combined left to right, a later dict's
\* entry taking the place of an earlier one of the same key
merge_dicts(ds) ==
    LET F[i \in 0..Len(ds)] ==
            IF i = 0 THEN <<>>
            ELSE [k \in DOMAIN F[i - 1] \cup DOMAIN ds[i] |->
                    IF k \in DOMAIN ds[i] THEN ds[i][k] ELSE F[i - 1][k]]
    IN  F[Len(ds)]

\* a plausible slip: the values read from a key the payload does not have
to_kv_WrongKey(attr_payload) ==
    LET key == Get(attr_payload, "attrName", "")
    IN  IF key = "" THEN <<>>
        ELSE [k \in {key} |-> Get(attr_payload, "value", <<>>)]

\* a plausible slip: the test for the empty name left out
to_kv_KeepsEmpty(attr_payload) ==
    LET key == Get(attr_payload, "attrName", "")
    IN  [k \in {key} |-> Get(attr_payload, "values", <<>>)]

\* to_kv, local to from_quantumleap_format
to_kv(attr_payload) ==
    LET key == Get(attr_payload, "attrName", "")
    IN  IF key = "" THEN <<>>
        ELSE [k \in {key} |-> Get(attr_payload, "values", <<>>)]

\* pydantic's create_model(model_name, __base__=EntitySeries, **attr_fields)
\* followed by dynamic_model(index=tix).  A keyword that is not a tuple is a
\* field's default, the field's type being the default's class; the
\* metaclass raises TypeError when such a field has the name of a field of
\* the base class, here `index`, whose type (datetime) the class of the
\* default (list) does not extend.  The instance holds the index given and
\* every other field's default.
create_and_instantiate(model_name, attr_fields, tix) ==
    IF "index" \in DOMAIN attr_fields THEN Error("TypeError")
    ELSE Ok([model |-> model_name,
             fields |-> [k \in DOMAIN attr_fields \cup {"index"} |->
                           IF k = "index" THEN tix ELSE attr_fields[k]]])

\* a plausible slip: the attributes merged back to front
from_quantumleap_format_Reversed(entity_query_result) ==
    LET attributes == Get(entity_query_result, "attributes", <<>>)
        n == Len(attributes)
        attr_fields ==
            merge_dicts([i \in 1..n |-> to_kv(attributes[n + 1 - i])])
        raw_tix == Get(entity_query_result, "index", <<>>)
        parsed == [i \in DOMAIN raw_tix |-> fromisoformat(raw_tix[i])]
        model_name == Get(entity_query_result, "entityType", "") \o "Series"
    IN  IF \E i \in DOMAIN parsed : parsed[i].kind = "error"
        THEN Error("ValueError")
        ELSE create_and_instantiate(model_name, attr_fields,
                                    [i \in DOMAIN parsed |-> parsed[i].val])

\* a plausible slip: the entries that do not parse left out of the index
from_quantumleap_format_SkipBad(entity_query_result) ==
    LET attributes == Get(entity_query_result, "attributes", <<>>)
        attr_fields ==
            merge_dicts([i \in DOMAIN attributes |-> to_kv(attributes[i])])
        raw_tix == Get(entity_query_result, "index", <<>>)
        parsed == [i \in DOMAIN raw_tix |-> fromisoformat(raw_tix[i])]
        good == SelectSeq(parsed, IsEntity)
        model_name == Get(entity_query_result, "entityType", "") \o "Series"
    IN  create_and_instantiate(model_name, attr_fields,
                               [i \in DOMAIN good |-> good[i].val])

\* a plausible slip: the instance built from the attribute fields laid over
\* the index, and no model created from them
from_quantumleap_format_AttrsOverIndex(entity_query_result) ==
    LET attributes == Get(entity_query_result, "attributes", <<>>)
        attr_fields ==
            merge_dicts([i \in DOMAIN attributes |-> to_kv(attributes[i])])
        raw_tix == Get(entity_query_result, "index", <<>>)
        parsed == [i \in DOMAIN raw_tix |-> fromisoformat(raw_tix[i])]
        tix == [i \in DOMAIN parsed |-> parsed[i].val]
        model_name == Get(entity_query_result, "entityType", "") \o "Series"
    IN  IF \E i \in DOMAIN parsed : parsed[i].kind = "error"
        THEN Error("ValueError")
        ELSE Ok([model |-> model_name,
                 fields |-> [k \in DOMAIN attr_fields \cup {"index"} |->
                               IF k \in DOMAIN attr_fields
                               THEN attr_fields[k] ELSE tix]])

\* EntitySeries.from_quantumleap_format: the attributes are merged first,
\* then the index is parsed, the first entry that does not parse raising
\* ValueError, then the model is created and instantiated
from_quantumleap_format(entity_query_result) ==
    LET attributes == Get(entity_query_result, "attributes", <<>>)
        attr_fields ==
            merge_dicts([i \in DOMAIN attributes |-> to_kv(attributes[i])])
        raw_tix == Get(entity_query_result, "index", <<>>)
        parsed == [i \in DOMAIN raw_tix |-> fromisoformat(raw_tix[i])]
        model_name == Get(entity_query_result, "entityType", "") \o "Series"
    IN  IF \E i \in DOMAIN parsed : parsed[i].kind = "error"
        THEN Error("ValueError")
        ELSE create_and_instantiate(model_name, attr_fields,
                                    [i \in DOMAIN parsed |-> parsed[i].val])

\* "2020-01-01T00:00:00" and "2020-01-01T01:00:00"
T0 == <<"2", "0", "2", "0", "-", "0", "1", "-", "0", "1", "T",
        "0", "0", ":", "0", "0", ":", "0", "0">>
T1 == <<"2", "0", "2", "0", "-", "0", "1", "-", "0", "1", "T",
        "0", "1", ":", "0", "0", ":", "0", "0">>
\* "2020-13-01T00:00:00", a month that does not exist, and "yesterday"
TBadMonth == <<"2", "0", "2", "0", "-", "1", "3", "-", "0", "1", "T",
               "0", "0", ":", "0", "0", ":", "0", "0">>
TNoDate == <<"y", "e", "s", "t", "e", "r", "d", "a", "y">>

Timestamps == {T0, T1, TBadMonth, TNoDate}

AttrPayloads ==
    { [attrName |-> "temp", values |-> <<10, 12>>],
      [attrName |-> "temp"],
      [attrName |-> "rh", values |-> <<40, 41>>],
      [attrName |-> "index", values |-> <<10, 12, 14>>],
      [attrName |-> "", values |-> <<1, 2>>],
      [values |-> <<1, 2>>] }

PayloadKeys ==
    { {"entityType", "index", "attributes"}, {"attributes"}, {"index"}, {} }

\* the payload with the given keys
QueryResult(keys, ix, at) ==
    [k \in keys |->
        CASE k = "entityType" -> "Room"
          [] k = "index" -> ix
          [] OTHER -> at]

InitSeries ==
    /\ \E keys \in PayloadKeys,
          ix \in SeqsUpTo(Timestamps, MaxIndex),
          at \in SeqsUpTo(AttrPayloads, MaxAttrs) :
          call = [op |-> "from_quantumleap_format",
                  entity_query_result |-> QueryResult(keys, ix, at)]
    /\ result = NotCalled
    /\ heap = NoHeap

CallFromQuantumleapFormat ==
    /\ call.op = "from_quantumleap_format"
    /\ result = NotCalled
    /\ result' = from_quantumleap_format(call.entity_query_result)
    /\ UNCHANGED <<call, heap>>

NextSeries == CallFromQuantumleapFormat

SpecSeries == InitSeries /\ [][NextSeries]_vars

SeriesReturned ==
    /\ call.op = "from_quantumleap_format"
    /\ result # NotCalled
    /\ result.kind = "ok"

SeriesCalled == call.op = "from_quantumleap_format" /\ result # NotCalled

PayloadIndex == Get(call.entity_query_result, "index", <<>>)
PayloadAttributes == Get(call.entity_query_result, "attributes", <<>>)

\* the element has a name that is not the empty string
Named(a) == "attrName" \in DOMAIN a /\ a["attrName"] # ""

\* the named elements no later element shares the name of
Surviving(attributes) ==
    {i \in DOMAIN attributes :
        /\ Named(attributes[i])
        /\ \A j \in DOMAIN attributes :
              (j > i /\ Named(attributes[j]))
                  => attributes[j]["attrName"] # attributes[i]["attrName"]}

ValuesOf(a) == IF "values" \in DOMAIN a THEN a["values"] ELSE <<>>

\* C1 as stated: in every series returned, every field other than `index`
\* is an array as long as `index`.
C1_FieldsAsLongAsIndex ==
    SeriesReturned =>
        \A f \in DOMAIN result.val.fields \ {"index"} :
            Len(result.val.fields[f]) = Len(result.val.fields["index"])

\* C1 amended: the builder neither checks nor repairs lengths: every field
\* other than `index` is as long as the `values` array it was taken from,
\* so in a series returned from a payload whose surviving attribute arrays
\* each have the length of `index`, every field other than `index` is as
\* long as the series' `index`.
C1_FieldsKeepPayloadLengths ==
    SeriesReturned =>
        /\ \A i \in Surviving(PayloadAttributes) :
              Len(result.val.fields[PayloadAttributes[i]["attrName"]])
                  = Len(ValuesOf(PayloadAttributes[i]))
        /\ (\A i \in Surviving(PayloadAttributes) :
                Len(ValuesOf(PayloadAttributes[i])) = Len(PayloadIndex))
            => \A f \in DOMAIN result.val.fields \ {"index"} :
                  Len(result.val.fields[f]) = Len(result.val.fields["index"])

C1_Witness ==
    /\ SeriesReturned
    /\ PayloadIndex = <<T0, T1>>
    /\ PayloadAttributes = <<[attrName |-> "temp"],
                             [attrName |-> "rh", values |-> <<40, 41>>],
                             [attrName |-> "temp", values |-> <<10, 12>>]>>
    /\ DOMAIN result.val.fields = {"index", "temp", "rh"}
    /\ Len(result.val.fields["index"]) = 2
    /\ Len(result.val.fields["temp"]) = 2
    /\ Len(result.val.fields["rh"]) = 2

\* seq without its element at position i
RemoveAt(seq, i) ==
    [k \in 1..(Len(seq) - 1) |-> IF k < i THEN seq[k] ELSE seq[k + 1]]

\* C2: an element of `attributes` with no attrName or an empty one adds no
\* field and raises no error: the call ends as the call on the payload
\* without that element ends, with the same fields and values.
C2_NamelessElementIgnored ==
    SeriesCalled =>
        \A i \in DOMAIN PayloadAttributes :
            ~Named(PayloadAttributes[i]) =>
                /\ result = from_quantumleap_format(
                      [call.entity_query_result EXCEPT
                          !["attributes"] = RemoveAt(PayloadAttributes, i)])
                /\ result.kind = "ok" => "" \notin DOMAIN result.val.fields

C2_Witness ==
    /\ SeriesReturned
    /\ PayloadIndex = <<T0, T1>>
    /\ PayloadAttributes = <<[values |-> <<1, 2>>],
                             [attrName |-> "temp", values |-> <<10, 12>>],
                             [attrName |-> "", values |-> <<1, 2>>]>>
    /\ DOMAIN result.val.fields = {"index", "temp"}
    /\ result.val.fields["temp"] = <<10, 12>>

\* C3: when two or more elements of `attributes` share a non-empty
\* attrName, the series has a field of that name and its value is the
\* `values` array of the last of them.
C3_LastWriteWins ==
    SeriesReturned =>
        \A i, j \in DOMAIN PayloadAttributes :
            (/\ i < j
             /\ Named(PayloadAttributes[i])
             /\ Named(PayloadAttributes[j])
             /\ PayloadAttributes[i]["attrName"]
                   = PayloadAttributes[j]["attrName"]
             /\ j \in Surviving(PayloadAttributes))
            => /\ PayloadAttributes[j]["attrName"] \in DOMAIN result.val.fields
               /\ result.val.fields[PayloadAttributes[j]["attrName"]]
                     = ValuesOf(PayloadAttributes[j])

C3_Witness ==
    /\ SeriesReturned
    /\ PayloadAttributes = <<[attrName |-> "temp"],
                             [attrName |-> "rh", values |-> <<40, 41>>],
                             [attrName |-> "temp", values |-> <<10, 12>>]>>
    /\ DOMAIN result.val.fields = {"index", "temp", "rh"}
    /\ result.val.fields["temp"] = <<10, 12>>

\* the strings of Timestamps that are no ISO-8601 timestamp
MalformedTimestamps == {TBadMonth, TNoDate}

Midnight2020 ==
    [year |-> 2020, month |-> 1, day |-> 1,
     hour |-> 0, minute |-> 0, second |-> 0]

\* the instant each well-formed string of Timestamps names
Instant(ts) == IF ts = T1 THEN [Midnight2020 EXCEPT !.hour = 1]
               ELSE Midnight2020

=============================================================================
